---- MODULE Spec2Model ----
(***************************************************************************)
(* DocuFill: the Excel configuration reader (src/src/utils/excel_reader.py),*)
(* the document filler (src/src/utils/document_filler.py) and the template *)
(* API (src/app.py), as a state machine over one template folder.          *)
(*                                                                         *)
(* Python strings are sequences of one-character strings, so that strip,   *)
(* upper, lower, startswith, suffix, glob and the key regular expression   *)
(* are computed, not assumed.                                               *)
(***************************************************************************)
EXTENDS Integers, Sequences, FiniteSets, TLC

VARIABLES
  files,      \* names of the files in the template folder
  sheets,     \* spreadsheet file name -> its content as pandas reads it
  broken,     \* document files whose rendering raises (corrupt template)
  converter,  \* what the LibreOffice conversion of a .doc file does
  clock,      \* the wall clock, at the one-second resolution of strftime
  outdirs,    \* output folders that exist
  outfiles,   \* files written under the output root, as <<folder, name>>
  call,       \* the last operation called, with its arguments
  ret,        \* what that operation returned or raised
  reads,      \* results of the read_fields calls made so far
  fills,      \* the output folder and the files written by each fill so far
  rendered    \* the context the last _fill_docx_file call on its own rendered

vars == <<files, sheets, broken, converter, clock, outdirs, outfiles,
          call, ret, reads, fills, rendered>>

(***************************************************************************)
(* Bounds of the model.                                                    *)
(***************************************************************************)
MaxRows == 3       \* rows of a spreadsheet in the read checks
MaxDupRows == 4    \* rows of a spreadsheet in the key validation checks
MaxCells == 2      \* rows of a spreadsheet in the boolean-token checks
MaxReads == 2      \* read_fields results remembered
MaxRequest == 2    \* file names in one fill_multiple_documents request
MaxClock == 2      \* seconds the clock may advance
MaxFills == 2      \* fill operations in one run of repeated fills
MaxFieldRows == 2  \* rows of a spreadsheet in the checks of the field getters
MaxItems == 2      \* items of a list value of the fill data

(***************************************************************************)
(* Python str methods.                                                     *)
(***************************************************************************)
LowerLetters ==
  <<"a","b","c","d","e","f","g","h","i","j","k","l","m",
    "n","o","p","q","r","s","t","u","v","w","x","y","z">>

UpperLetters ==
  <<"A","B","C","D","E","F","G","H","I","J","K","L","M",
    "N","O","P","Q","R","S","T","U","V","W","X","Y","Z">>

DigitChars == <<"0","1","2","3","4","5","6","7","8","9">>

Whitespace == {" ", "\t", "\n"}

Range(s) == {s[i] : i \in DOMAIN s}

\* the position of c in alphabet from, mapped to alphabet to; c when absent
translate(c, from, to) ==
  IF \E i \in DOMAIN from : from[i] = c
    THEN to[CHOOSE i \in DOMAIN from : from[i] = c]
    ELSE c

RECURSIVE upper(_)
upper(s) ==
  IF s = <<>> THEN <<>>
  ELSE <<translate(Head(s), LowerLetters, UpperLetters)>> \o upper(Tail(s))

RECURSIVE lower(_)
lower(s) ==
  IF s = <<>> THEN <<>>
  ELSE <<translate(Head(s), UpperLetters, LowerLetters)>> \o lower(Tail(s))

RECURSIVE lstrip(_)
lstrip(s) ==
  IF s # <<>> /\ Head(s) \in Whitespace THEN lstrip(Tail(s)) ELSE s

RECURSIVE rstrip(_)
rstrip(s) ==
  IF s # <<>> /\ s[Len(s)] \in Whitespace
    THEN rstrip(SubSeq(s, 1, Len(s) - 1))
    ELSE s

strip(s) == rstrip(lstrip(s))

startswith(s, p) == Len(s) >= Len(p) /\ SubSeq(s, 1, Len(p)) = p

endswith(s, p) ==
  Len(s) >= Len(p) /\ SubSeq(s, Len(s) - Len(p) + 1, Len(s)) = p

contains(s, p) ==
  \E i \in 1..(Len(s) - Len(p) + 1) : SubSeq(s, i, i + Len(p) - 1) = p

RECURSIVE int_str(_)
int_str(n) ==
  IF n < 0 THEN <<"-">> \o int_str(0 - n)
  ELSE IF n < 10 THEN <<DigitChars[n + 1]>>
  ELSE int_str(n \div 10) \o <<DigitChars[(n % 10) + 1]>>

(***************************************************************************)
(* Python values held by spreadsheet cells and passed as arguments.        *)
(***************************************************************************)
NaN == [t |-> "nan"]                       \* float('nan'): a missing cell
None == [t |-> "none"]
Str(s) == [t |-> "str", s |-> s]
Bool(b) == [t |-> "bool", b |-> b]
Int_(n) == [t |-> "int", n |-> n]
List(items) == [t |-> "list", items |-> items]

\* str(value)
str(v) ==
  CASE v.t = "str" -> v.s
    [] v.t = "nan" -> <<"n","a","n">>
    [] v.t = "none" -> <<"N","o","n","e">>
    [] v.t = "bool" -> IF v.b THEN <<"T","r","u","e">> ELSE <<"F","a","l","s","e">>
    [] v.t = "int" -> int_str(v.n)

\* pd.isna(value)
isna(v) == v.t \in {"nan", "none"}

\* the truth value Python gives an object ("if x", "not x", bool(x))
truthy(v) ==
  CASE v.t = "str" -> v.s # <<>>
    [] v.t = "nan" -> TRUE
    [] v.t = "none" -> FALSE
    [] v.t = "bool" -> v.b
    [] v.t = "int" -> v.n # 0

(***************************************************************************)
(* src/src/constants/excel_constants.py                                    *)
(***************************************************************************)
EXCEL_COLUMNS ==
  [LABEL |-> "label", KEY |-> "key", MULTIPLE |-> "multiple",
   TYPE |-> "type", NOTE |-> "note"]

EXCEL_REQUIRED_COLUMNS == <<EXCEL_COLUMNS.LABEL, EXCEL_COLUMNS.KEY>>

EXCEL_MULTIPLE_COLUMNS == <<EXCEL_COLUMNS.MULTIPLE, EXCEL_COLUMNS.TYPE>>

S_TRUE == <<"T","R","U","E">>
S_FALSE == <<"F","A","L","S","E">>

\* EXCEL_BOOLEAN_MAPPING, as the set of its keys and its value at a key
EXCEL_BOOLEAN_MAPPING_keys == {S_TRUE, S_FALSE}
EXCEL_BOOLEAN_MAPPING(k) == k = S_TRUE

DEFAULT_CONFIG_EXCEL_FILENAME ==
  <<"c","o","n","f","i","g",".","x","l","s","x">>

(***************************************************************************)
(* Results of calls: a returned value or a raised exception.               *)
(***************************************************************************)
Return(v) == [raised |-> FALSE, value |-> v]
Raise(type, msg) == [raised |-> TRUE, type |-> type, msg |-> msg]

Seqs(S, n) == UNION {[1..k -> S] : k \in 0..n}

(***************************************************************************)
(* ExcelConfigReader (src/src/utils/excel_reader.py).  A DataFrame is a    *)
(* record [readable, columns, rows]: pd.read_excel raises on a file that   *)
(* is not readable, and every row maps each column to its cell.            *)
(***************************************************************************)
Unreadable == [readable |-> FALSE, columns |-> {}, rows |-> <<>>]

DataFrame(columns, rows) == [readable |-> TRUE, columns |-> columns, rows |-> rows]

\* row.get(col, default)
row_get(df, row, col, default) ==
  IF col \in df.columns THEN row[col] ELSE default

\* variant: only the key column is required
missing_columns_key_only(df) ==
  SelectSeq(<<EXCEL_COLUMNS.KEY>>, LAMBDA col : col \notin df.columns)

\* _validate_columns: the required columns the DataFrame lacks, in order
missing_columns(df) ==
  SelectSeq(EXCEL_REQUIRED_COLUMNS, LAMBDA col : col \notin df.columns)

S_YES == <<"Y","E","S">>
S_NO == <<"N","O">>
S_nan == <<"n","a","n">>

\* variant: the token is compared as written, without strip().upper()
_parse_boolean_as_written(value) ==
  IF value.t = "bool" THEN value.b
  ELSE IF value.t = "str" THEN value.s \in {S_TRUE, S_YES, <<"Y">>, <<"1">>}
  ELSE IF value.t \in {"int", "nan"} THEN truthy(value)
  ELSE FALSE

_parse_boolean(value) ==
  LET value_upper == upper(strip(value.s)) IN
  IF value.t = "bool" THEN value.b
  ELSE IF value.t = "str" /\ value_upper \in EXCEL_BOOLEAN_MAPPING_keys
    THEN EXCEL_BOOLEAN_MAPPING(value_upper)
  ELSE IF value.t = "str" /\ value_upper \in {S_YES, <<"Y">>, <<"1">>}
    THEN TRUE
  ELSE IF value.t = "str" /\ value_upper \in {S_NO, <<"N">>, <<"0">>, <<>>}
    THEN FALSE
  ELSE IF value.t \in {"int", "nan"}     \* isinstance(value, (int, float))
    THEN truthy(value)
  ELSE FALSE

\* the test of line 135: the cell of an indicator column holds a value
has_indicator(value) ==
  value.t # "none" /\ lower(strip(str(value))) \notin {S_nan, <<>>}

\* the loop of _get_multiple_value over the columns cols.  The assignment
\* row[col] = value_upper changes the row object that iterrows handed out,
\* which nothing reads afterwards under that column; the parsed value is the
\* cell as read.
RECURSIVE get_multiple_from(_, _, _)
get_multiple_from(df, row, cols) ==
  IF cols = <<>> THEN FALSE
  ELSE IF Head(cols) \in df.columns /\ has_indicator(row[Head(cols)])
    THEN _parse_boolean(row[Head(cols)])
    ELSE get_multiple_from(df, row, Tail(cols))

_get_multiple_value(df, row) == get_multiple_from(df, row, EXCEL_MULTIPLE_COLUMNS)

\* key = str(row.get('key', '')).strip()
row_key(df, row) == strip(str(row_get(df, row, EXCEL_COLUMNS.KEY, Str(<<>>))))

\* variant: only the empty key is skipped
skip_row_empty_only(key) == key = <<>>

\* line 87: the row is skipped
skip_row(key) == key = <<>> \/ lower(key) = S_nan

\* lines 91-96
build_field(df, row, key) ==
  [label |-> str(row_get(df, row, EXCEL_COLUMNS.LABEL, Str(key))),
   key |-> key,
   multiple |-> _get_multiple_value(df, row),
   note |-> str(row_get(df, row, EXCEL_COLUMNS.NOTE, Str(<<>>)))]

\* the loop of _parse_dataframe over df.iterrows()
RECURSIVE parse_rows(_, _)
parse_rows(df, rows) ==
  IF rows = <<>> THEN <<>>
  ELSE LET key == row_key(df, Head(rows)) IN
       IF skip_row(key)
         THEN parse_rows(df, Tail(rows))
         ELSE <<build_field(df, Head(rows), key)>> \o parse_rows(df, Tail(rows))

_parse_dataframe(df) ==
  IF missing_columns(df) # <<>>
    THEN Raise("ValueError",
               [kind |-> "missing_columns", missing |-> missing_columns(df)])
    ELSE Return(parse_rows(df, df.rows))

\* read_fields: every exception of the read and of the parse is raised again
\* as ValueError("Error reading Excel file: ...")
read_fields(sheet) ==
  IF ~sheet.readable
    THEN Raise("ValueError", [kind |-> "unreadable", missing |-> <<>>])
    ELSE _parse_dataframe(sheet)

\* the loop of _validate_multiple_column from row index i (0-based i - 1)
RECURSIVE multiple_errors_from(_, _)
multiple_errors_from(df, i) ==
  IF i > Len(df.rows) THEN <<>>
  ELSE LET value == df.rows[i][EXCEL_COLUMNS.MULTIPLE]
           value_str == upper(strip(str(value)))
       IN IF isna(value) \/ strip(str(value)) = <<>>
            THEN multiple_errors_from(df, i + 1)
          ELSE IF value_str \notin {S_TRUE, S_FALSE}
            THEN <<[kind |-> "invalid_multiple", row |-> (i - 1) + 2,
                    value |-> value]>> \o multiple_errors_from(df, i + 1)
          ELSE multiple_errors_from(df, i + 1)

\* variant: the presence test names the alternative column
_validate_multiple_column_type(df) ==
  IF EXCEL_COLUMNS.TYPE \notin df.columns THEN <<>>
  ELSE multiple_errors_from(df, 1)

_validate_multiple_column(df) ==
  IF EXCEL_COLUMNS.MULTIPLE \notin df.columns THEN <<>>
  ELSE multiple_errors_from(df, 1)

\* keys.count(key)
count(keys, key) == Cardinality({i \in DOMAIN keys : keys[i] = key})

\* [key for key in keys if keys.count(key) > 1]
duplicate_keys(keys) == SelectSeq(keys, LAMBDA key : count(keys, key) > 1)

\* variant: the duplicates are joined as collected, without set()
set_of_omitted(s) == s

\* set(duplicates), in the order ', '.join walks it: each element once (the
\* order of a Python set is not specified; first occurrences are kept here)
RECURSIVE set_of(_)
set_of(s) ==
  IF s = <<>> THEN <<>>
  ELSE LET init == SubSeq(s, 1, Len(s) - 1)
           last == s[Len(s)]
       IN IF last \in Range(init) THEN set_of(init)
          ELSE set_of(init) \o <<last>>

WordChars == Range(LowerLetters) \cup Range(UpperLetters) \cup Range(DigitChars) \cup {"_"}

\* variant: the pattern without its end anchor
re_match_key_unanchored(key) == key # <<>> /\ key[1] \in WordChars

\* re.match(r'^[a-zA-Z0-9_]+$', key): $ also matches before a final newline
re_match_key(key) ==
  LET core == IF key # <<>> /\ key[Len(key)] = "\n"
                THEN SubSeq(key, 1, Len(key) - 1) ELSE key
  IN (key # <<>> /\ Range(key) \subseteq WordChars)
     \/ (core # <<>> /\ Range(core) \subseteq WordChars)

Keys(fields) == [i \in DOMAIN fields |-> fields[i].key]

\* variant: a warning makes the report invalid too
validation_report_strict(errors, warnings) ==
  [valid |-> Len(errors) = 0 /\ Len(warnings) = 0,
   errors |-> errors, warnings |-> warnings]

\* lines 346-350
validation_report(errors, warnings) ==
  [valid |-> Len(errors) = 0, errors |-> errors, warnings |-> warnings]

\* variant: an empty field list is not reported
no_fields_errors_omitted(fields) == <<>>

\* lines 323-324
no_fields_errors(fields) ==
  IF Len(fields) = 0 THEN <<[kind |-> "no_fields"]>> ELSE <<>>

\* lines 327-330
duplicate_errors(fields) ==
  LET duplicates == duplicate_keys(Keys(fields)) IN
  IF duplicates # <<>>
    THEN <<[kind |-> "duplicate_keys", keys |-> set_of(duplicates)]>>
    ELSE <<>>

\* lines 333-335
empty_label_warnings(fields) ==
  LET empty_labels ==
        Keys(SelectSeq(fields, LAMBDA field : strip(field.label) = <<>>))
  IN IF empty_labels # <<>>
       THEN <<[kind |-> "empty_labels", keys |-> empty_labels]>>
       ELSE <<>>

\* lines 339-341
RECURSIVE key_format_errors(_)
key_format_errors(fields) ==
  IF fields = <<>> THEN <<>>
  ELSE (IF ~re_match_key(Head(fields).key)
          THEN <<[kind |-> "invalid_key", key |-> Head(fields).key]>>
          ELSE <<>>) \o key_format_errors(Tail(fields))

validate_config(sheet) ==
  IF ~sheet.readable
    THEN validation_report(
           <<[kind |-> "validation_error", cause |-> "unreadable"]>>, <<>>)
  ELSE LET multiple_errors == _validate_multiple_column(sheet)
           r == read_fields(sheet)
       IN IF r.raised
            THEN validation_report(
                   multiple_errors
                     \o <<[kind |-> "validation_error", cause |-> r.msg.kind]>>,
                   <<>>)
            ELSE validation_report(
                   multiple_errors \o no_fields_errors(r.value)
                     \o duplicate_errors(r.value) \o key_format_errors(r.value),
                   empty_label_warnings(r.value))

(***************************************************************************)
(* Paths.                                                                  *)
(***************************************************************************)
\* the index of the last "." of name, 0 when it has none
rfind_dot(name) ==
  IF \E i \in DOMAIN name : name[i] = "."
    THEN CHOOSE i \in DOMAIN name :
           name[i] = "." /\ \A j \in DOMAIN name : name[j] = "." => j <= i
    ELSE 0

\* Path(name).suffix
suffix(name) ==
  LET i == rfind_dot(name) IN
  IF 1 < i /\ i < Len(name) THEN SubSeq(name, i, Len(name)) ELSE <<>>

X_xlsx == <<".","x","l","s","x">>
X_xls == <<".","x","l","s">>
X_docx == <<".","d","o","c","x">>
X_doc == <<".","d","o","c">>
TempMarker == <<"~","$">>

\* ExcelConfigReader(file_path): __init__ and _validate_file
ExcelConfigReader(file_path) ==
  IF file_path \notin files
    THEN Raise("FileNotFoundError", [kind |-> "config_not_found", missing |-> <<>>])
  ELSE IF suffix(file_path) \notin {X_xlsx, X_xls}
    THEN Raise("ValueError", [kind |-> "not_excel", missing |-> <<>>])
  ELSE Return(sheets[file_path])

(***************************************************************************)
(* Operations of the reader.                                               *)
(***************************************************************************)
NoCall == [op |-> "none"]
NoContext == [done |-> FALSE]

Remember(history, r) ==
  IF Len(history) < MaxReads THEN Append(history, r)
  ELSE Append(Tail(history), r)

ReadFields(file_path) ==
  LET reader == ExcelConfigReader(file_path) IN
  /\ ~reader.raised
  /\ call' = [op |-> "read_fields", path |-> file_path]
  /\ ret' = read_fields(reader.value)
  /\ reads' = Remember(reads, read_fields(reader.value))
  /\ UNCHANGED <<files, sheets, broken, converter, clock, outdirs, outfiles, fills, rendered>>

ValidateConfig(file_path) ==
  LET reader == ExcelConfigReader(file_path) IN
  /\ ~reader.raised
  /\ call' = [op |-> "validate_config", path |-> file_path]
  /\ ret' = Return(validate_config(reader.value))
  /\ UNCHANGED <<files, sheets, broken, converter, clock, outdirs, outfiles, reads, fills, rendered>>

(***************************************************************************)
(* Spreadsheets of the key checks: the required columns present or not,    *)
(* and up to MaxRows rows of key cells.                                    *)
(***************************************************************************)
ConfigName == DEFAULT_CONFIG_EXCEL_FILENAME

KeyCells ==
  {NaN,
   Str(<<" ">>),
   Str(<<"n","a","n">>),
   Str(<<" ","N","a","N"," ">>),
   Str(<<"k","_","1">>),
   Str(<<" ","k","_","1">>),
   Str(<<"a"," ","b">>),
   Str(<<"k","-","2">>)}

KeyColumnSets == {{"label", "key"}, {"key"}, {"label"}, {}}

\* the rows over columns whose key cell is in K and whose label cell is in L
RowsOver(columns, K, L) ==
  {[c \in columns |-> IF c = "key" THEN k ELSE l] : k \in K, l \in L}

KeySheets ==
  UNION {{DataFrame(columns, rows) :
            rows \in Seqs(RowsOver(columns, KeyCells, {Str(<<"L">>)}), MaxRows)} :
         columns \in KeyColumnSets}

InitQuiet ==
  /\ broken = {}
  /\ converter = "ok"
  /\ clock = 0
  /\ outdirs = {}
  /\ outfiles = {}
  /\ call = NoCall
  /\ ret = Return(<<>>)
  /\ reads = <<>>
  /\ fills = <<>>
  /\ rendered = NoContext

InitKeys ==
  /\ files = {ConfigName}
  /\ \E sheet \in KeySheets : sheets = (ConfigName :> sheet)
  /\ InitQuiet

NextKeys ==
  \/ \E file_path \in files : ReadFields(file_path)
  \/ \E file_path \in files : ValidateConfig(file_path)

SpecKeys == InitKeys /\ [][NextKeys]_vars

(***************************************************************************)
(* Spreadsheets of the key validation checks: up to MaxDupRows rows.       *)
(***************************************************************************)
DupKeyCells ==
  {NaN,
   Str(<<"k","_","1">>),
   Str(<<" ","k","_","1">>),
   Str(<<"a"," ","b">>),
   Str(<<"k","-","2">>)}

DupSheets ==
  UNION {{DataFrame(columns, rows) :
            rows \in Seqs(RowsOver(columns, DupKeyCells, {Str(<<"L">>)}), MaxDupRows)} :
         columns \in {{"label", "key"}, {"label"}}}

InitDup ==
  /\ files = {ConfigName}
  /\ \E sheet \in DupSheets : sheets = (ConfigName :> sheet)
  /\ InitQuiet

SpecDup == InitDup /\ [][NextKeys]_vars

(***************************************************************************)
(* Spreadsheets of the boolean-token checks: a "multiple" column of up to  *)
(* MaxCells cells, and the values _parse_boolean is applied to.            *)
(***************************************************************************)
MultipleCells ==
  {NaN, Bool(TRUE), Bool(FALSE), Int_(0), Int_(1), Int_(2),
   Str(<<"T","R","U","E">>), Str(<<"t","r","u","e">>),
   Str(<<" ","T","r","u","e"," ">>),
   Str(<<"Y","E","S">>), Str(<<"Y">>), Str(<<"y">>), Str(<<"1">>),
   Str(<<"F","A","L","S","E">>), Str(<<"f","a","l","s","e">>),
   Str(<<"N","O">>), Str(<<"N">>), Str(<<"n">>), Str(<<"0">>),
   Str(<<>>), Str(<<" ">>),
   Str(<<"m","a","y","b","e">>), Str(<<"2">>)}

BooleanArgs == MultipleCells \cup {None}

BoolRows ==
  {[c \in {"label", "key", "multiple"} |->
      IF c = "key" THEN Str(<<"k","_","1">>)
      ELSE IF c = "label" THEN Str(<<"L">>)
      ELSE m] : m \in MultipleCells}

BoolSheets ==
  {DataFrame({"label", "key", "multiple"}, rows) : rows \in Seqs(BoolRows, MaxCells)}

ParseBoolean(value) ==
  /\ call' = [op |-> "_parse_boolean", value |-> value]
  /\ ret' = Return(_parse_boolean(value))
  /\ UNCHANGED <<files, sheets, broken, converter, clock, outdirs, outfiles, reads, fills, rendered>>

InitBool ==
  /\ files = {ConfigName}
  /\ \E sheet \in BoolSheets : sheets = (ConfigName :> sheet)
  /\ InitQuiet

\* the cells of a column of the spreadsheets
CellsOf(column) ==
  UNION {{sheets[f].rows[i][column] : i \in DOMAIN sheets[f].rows} : f \in DOMAIN sheets}

NextBool ==
  \/ \E value \in CellsOf("multiple") \cup {None} : ParseBoolean(value)
  \/ \E file_path \in files : ValidateConfig(file_path)

SpecBool == InitBool /\ [][NextBool]_vars

(***************************************************************************)
(* The getters of ExcelConfigReader over the parsed fields, and            *)
(* spreadsheets with either, both or none of the indicator columns.        *)
(***************************************************************************)
\* lines 256-259: the first field with the key, or None
first_with_key(fields, key) ==
  LET found == {i \in DOMAIN fields : fields[i].key = key} IN
  IF found = {} THEN None
  ELSE fields[CHOOSE i \in found : \A j \in found : i <= j]

get_field_by_key(sheet, key) ==
  IF read_fields(sheet).raised THEN read_fields(sheet)
  ELSE Return(first_with_key(read_fields(sheet).value, key))

get_multiple_value_fields(sheet) ==
  IF read_fields(sheet).raised THEN read_fields(sheet)
  ELSE Return(SelectSeq(read_fields(sheet).value, LAMBDA field : field.multiple))

\* variant: every field is returned as a single-value field
get_single_value_fields_all(sheet) == read_fields(sheet)

get_single_value_fields(sheet) ==
  IF read_fields(sheet).raised THEN read_fields(sheet)
  ELSE Return(SelectSeq(read_fields(sheet).value, LAMBDA field : ~field.multiple))

GetFieldByKey(file_path, key) ==
  LET reader == ExcelConfigReader(file_path) IN
  /\ ~reader.raised
  /\ call' = [op |-> "get_field_by_key", path |-> file_path, key |-> key]
  /\ ret' = get_field_by_key(reader.value, key)
  /\ UNCHANGED <<files, sheets, broken, converter, clock, outdirs, outfiles, reads, fills, rendered>>

GetMultipleValueFields(file_path) ==
  LET reader == ExcelConfigReader(file_path) IN
  /\ ~reader.raised
  /\ call' = [op |-> "get_multiple_value_fields", path |-> file_path]
  /\ ret' = get_multiple_value_fields(reader.value)
  /\ UNCHANGED <<files, sheets, broken, converter, clock, outdirs, outfiles, reads, fills, rendered>>

GetSingleValueFields(file_path) ==
  LET reader == ExcelConfigReader(file_path) IN
  /\ ~reader.raised
  /\ call' = [op |-> "get_single_value_fields", path |-> file_path]
  /\ ret' = get_single_value_fields(reader.value)
  /\ UNCHANGED <<files, sheets, broken, converter, clock, outdirs, outfiles, reads, fills, rendered>>

K_1 == <<"k","_","1">>
K_2 == <<"k","_","2">>
K_other == <<"z","z">>

IndicatorCells == {NaN, Str(<<"T","R","U","E">>), Str(<<"F","A","L","S","E">>)}

IndicatorColumnSets ==
  {{"label", "key", "multiple", "type"},
   {"label", "key", "multiple"},
   {"label", "key", "type"},
   {"label", "key"},
   {"label"}}

IndicatorRows(columns) ==
  {[c \in columns |->
      IF c = "key" THEN Str(k)
      ELSE IF c = "multiple" THEN m
      ELSE IF c = "type" THEN t
      ELSE Str(<<"L">>)] : k \in {K_1, K_2}, m \in IndicatorCells, t \in IndicatorCells}

IndicatorSheets ==
  UNION {{DataFrame(columns, rows) : rows \in Seqs(IndicatorRows(columns), MaxFieldRows)} :
         columns \in IndicatorColumnSets}

InitIndicator ==
  /\ files = {ConfigName}
  /\ \E sheet \in IndicatorSheets : sheets = (ConfigName :> sheet)
  /\ InitQuiet

NextIndicator ==
  \/ call = NoCall /\ \E file_path \in files : ReadFields(file_path)
  \/ call = NoCall /\ \E file_path \in files : GetMultipleValueFields(file_path)
  \/ call = NoCall /\ \E file_path \in files : GetSingleValueFields(file_path)
  \/ call = NoCall /\ \E file_path \in files, key \in {K_1, K_2, K_other} :
                        GetFieldByKey(file_path, key)

SpecIndicator == InitIndicator /\ [][NextIndicator]_vars

(***************************************************************************)
(* Spreadsheets of the label and note checks: label cells filled, blank or *)
(* empty, with and without a note column.                                  *)
(***************************************************************************)
LabelCells == {NaN, Str(<<" ">>), Str(<<"L">>)}
NoteCells == {NaN, Str(<<"n">>)}

LabelRows(columns) ==
  {[c \in columns |->
      IF c = "key" THEN Str(k)
      ELSE IF c = "label" THEN l
      ELSE n] : k \in {K_1, K_2}, l \in LabelCells, n \in NoteCells}

LabelSheets ==
  UNION {{DataFrame(columns, rows) : rows \in Seqs(LabelRows(columns), MaxFieldRows)} :
         columns \in {{"label", "key", "note"}, {"label", "key"}}}

InitLabel ==
  /\ files = {ConfigName}
  /\ \E sheet \in LabelSheets : sheets = (ConfigName :> sheet)
  /\ InitQuiet

NextLabel ==
  \/ call = NoCall /\ \E file_path \in files : ReadFields(file_path)
  \/ call = NoCall /\ \E file_path \in files : ValidateConfig(file_path)

SpecLabel == InitLabel /\ [][NextLabel]_vars

(***************************************************************************)
(* DocumentFiller (src/src/utils/document_filler.py).                      *)
(***************************************************************************)
ConverterOutcomes == {"ok", "missing", "timeout", "nonzero", "nofile"}

\* _convert_doc_to_docx: True only when LibreOffice ran, exited with 0 and
\* left the converted file
_convert_doc_to_docx == converter = "ok"

\* _fill_docx_file: rendering a corrupt template raises; otherwise the filled
\* document is saved
_fill_docx_file(template) ==
  IF template \in broken
    THEN Raise("Exception", [kind |-> "render"])
    ELSE Return("filled")

\* _fill_doc_file: fill the converted copy, or copy the original unfilled
_fill_doc_file(template) ==
  IF _convert_doc_to_docx THEN _fill_docx_file(template) ELSE Return("copied")

\* fill_document: what is written at output_path, or the exception raised
fill_document(template) ==
  IF template \notin files
    THEN Raise("FileNotFoundError", [kind |-> "template_not_found"])
  ELSE IF lower(suffix(template)) = X_doc
    THEN _fill_doc_file(template)
    ELSE _fill_docx_file(template)

OutputRoot == <<"o","u","t","p","u","t">>

\* datetime.now().strftime(...) at one-second resolution
strftime(now) == <<"t">> \o int_str(now)

\* lines 158-159
timestamp_or_now(timestamp) ==
  IF timestamp.t = "none" THEN strftime(clock) ELSE timestamp.s

\* variant: the folder is named {template_name}_{timestamp}
timestamped_folder_swapped(timestamp, template_name) ==
  template_name.s \o <<"_">> \o timestamp_or_now(timestamp)

\* lines 162-163: f"{timestamp}_{template_name}"
timestamped_folder(timestamp, template_name) ==
  timestamp_or_now(timestamp) \o <<"_">> \o template_name.s

\* lines 162-166, relative to the output root: <<>> is the root itself
output_folder(timestamp, template_name) ==
  IF truthy(template_name) THEN timestamped_folder(timestamp, template_name)
  ELSE <<>>

\* str(output_folder)
folder_path(folder) ==
  IF folder = <<>> THEN OutputRoot ELSE OutputRoot \o <<"/">> \o folder

\* variant: the entry is the bare file name whatever the template name
filled_entry_bare(docx_file, timestamp, template_name) == docx_file

\* lines 193-196
filled_entry(docx_file, timestamp, template_name) ==
  IF truthy(template_name)
    THEN timestamped_folder(timestamp, template_name) \o <<"/">> \o docx_file
    ELSE docx_file

Nothing == [filled_files |-> <<>>, errors |-> <<>>, written |-> {}]

\* variant: a missing source file is passed over without an error
fill_one_silent(docx_file, timestamp, template_name) ==
  IF startswith(docx_file, TempMarker) \/ docx_file \notin files THEN Nothing
  ELSE IF fill_document(docx_file).raised
    THEN [Nothing EXCEPT !.errors =
            <<[kind |-> "fill_error", file |-> docx_file]>>]
    ELSE [Nothing EXCEPT
            !.filled_files = <<filled_entry(docx_file, timestamp, template_name)>>,
            !.written = {<<output_folder(timestamp, template_name), docx_file,
                           fill_document(docx_file).value>>}]

\* variant: an exception of fill_document is swallowed without an error
fill_one_unrecorded(docx_file, timestamp, template_name) ==
  IF startswith(docx_file, TempMarker) THEN Nothing
  ELSE IF docx_file \notin files
    THEN [Nothing EXCEPT !.errors =
            <<[kind |-> "not_found", file |-> docx_file]>>]
  ELSE IF fill_document(docx_file).raised THEN Nothing
    ELSE [Nothing EXCEPT
            !.filled_files = <<filled_entry(docx_file, timestamp, template_name)>>,
            !.written = {<<output_folder(timestamp, template_name), docx_file,
                           fill_document(docx_file).value>>}]

\* one turn of the loop of lines 174-199
fill_one(docx_file, timestamp, template_name) ==
  IF startswith(docx_file, TempMarker) THEN Nothing
  ELSE IF docx_file \notin files
    THEN [Nothing EXCEPT !.errors =
            <<[kind |-> "not_found", file |-> docx_file]>>]
  ELSE IF fill_document(docx_file).raised
    THEN [Nothing EXCEPT !.errors =
            <<[kind |-> "fill_error", file |-> docx_file]>>]
    ELSE [Nothing EXCEPT
            !.filled_files = <<filled_entry(docx_file, timestamp, template_name)>>,
            !.written = {<<output_folder(timestamp, template_name), docx_file,
                           fill_document(docx_file).value>>}]

\* variant: the results of the turns are put together last turn first
RECURSIVE fill_loop_reversed(_, _, _)
fill_loop_reversed(docx_files, timestamp, template_name) ==
  IF docx_files = <<>> THEN Nothing
  ELSE LET one == fill_one(Head(docx_files), timestamp, template_name)
           rest == fill_loop_reversed(Tail(docx_files), timestamp, template_name)
       IN [filled_files |-> rest.filled_files \o one.filled_files,
           errors |-> rest.errors \o one.errors,
           written |-> one.written \cup rest.written]

\* the loop of lines 174-199
RECURSIVE fill_loop(_, _, _)
fill_loop(docx_files, timestamp, template_name) ==
  IF docx_files = <<>> THEN Nothing
  ELSE LET one == fill_one(Head(docx_files), timestamp, template_name)
           rest == fill_loop(Tail(docx_files), timestamp, template_name)
       IN [filled_files |-> one.filled_files \o rest.filled_files,
           errors |-> one.errors \o rest.errors,
           written |-> one.written \cup rest.written]

\* variant: success is reported only when nothing failed
fill_result_no_errors(filled_files, errors, folder) ==
  [success |-> Len(errors) = 0,
   filled_files |-> filled_files,
   errors |-> errors,
   output_folder |-> folder_path(folder)]

\* lines 201-206
fill_result(filled_files, errors, folder) ==
  [success |-> Len(filled_files) > 0,
   filled_files |-> filled_files,
   errors |-> errors,
   output_folder |-> folder_path(folder)]

fill_multiple_documents(docx_files, timestamp, template_name) ==
  LET done == fill_loop(docx_files, timestamp, template_name) IN
  fill_result(done.filled_files, done.errors, output_folder(timestamp, template_name))

FillMultipleDocuments(docx_files, timestamp, template_name) ==
  /\ call' = [op |-> "fill_multiple_documents", docx_files |-> docx_files,
              timestamp |-> timestamp, template_name |-> template_name]
  /\ ret' = Return(fill_multiple_documents(docx_files, timestamp, template_name))
  /\ outdirs' = outdirs \cup {output_folder(timestamp, template_name)}
  /\ outfiles' = outfiles \cup fill_loop(docx_files, timestamp, template_name).written
  /\ fills' = Append(fills,
                [op |-> "fill_multiple_documents",
                 at |-> clock,
                 folder |-> output_folder(timestamp, template_name),
                 existed |-> output_folder(timestamp, template_name) \in outdirs,
                 written |-> fill_loop(docx_files, timestamp, template_name).written])
  /\ UNCHANGED <<files, sheets, broken, converter, clock, reads, rendered>>

Tick ==
  /\ clock < MaxClock
  /\ clock' = clock + 1
  /\ UNCHANGED <<files, sheets, broken, converter, outdirs, outfiles, call, ret, reads, fills, rendered>>

(***************************************************************************)
(* Folders of the fill checks: documents present or not, corrupt or not,   *)
(* and one request of up to MaxRequest names.                              *)
(***************************************************************************)
A_docx == <<"a",".","d","o","c","x">>
B_doc == <<"b",".","d","o","c">>
Temp_docx == <<"~","$","a",".","d","o","c","x">>
Gone_docx == <<"g",".","d","o","c","x">>

DocNames == {A_docx, B_doc, Temp_docx}
RequestNames == DocNames \cup {Gone_docx}
TemplateName == Str(<<"T">>)
Timestamps == {None, Str(<<"s">>)}

InitFill ==
  /\ files \in SUBSET DocNames
  /\ broken \in SUBSET files
  /\ converter \in {"ok", "timeout"}
  /\ sheets = [f \in {} |-> Unreadable]
  /\ clock = 0
  /\ outdirs = {}
  /\ outfiles = {}
  /\ call = NoCall
  /\ ret = Return(<<>>)
  /\ reads = <<>>
  /\ fills = <<>>
  /\ rendered = NoContext

NextFill ==
  \/ call = NoCall /\ Tick
  \/ /\ call = NoCall
     /\ \E docx_files \in Seqs(RequestNames, MaxRequest), timestamp \in Timestamps,
           template_name \in {None, Str(<<>>), TemplateName} :
          FillMultipleDocuments(docx_files, timestamp, template_name)

SpecFill == InitFill /\ [][NextFill]_vars

(***************************************************************************)
(* _fill_docx_file called on its own with the data of a request: the       *)
(* context it hands to the template engine.                                *)
(***************************************************************************)
\* line 63: [str(item) for item in value if item]
context_items(items) ==
  LET kept == SelectSeq(items, LAMBDA item : truthy(item)) IN
  [i \in DOMAIN kept |-> Str(str(kept[i]))]

\* lines 61-67: the entry of one value
context_value(value) ==
  IF value.t = "list" THEN List(context_items(value.items))
  ELSE IF value.t = "none" THEN Str(<<>>)
  ELSE Str(str(value))

\* lines 59-67
context_of(data) == [key \in DOMAIN data |-> context_value(data[key])]

FillDocxFile(template, data) ==
  LET done == ~_fill_docx_file(template).raised IN
  /\ call' = [op |-> "_fill_docx_file", template |-> template, data |-> data]
  /\ ret' = _fill_docx_file(template)
  /\ rendered' = IF done THEN [done |-> TRUE, context |-> context_of(data)]
                 ELSE rendered
  /\ outdirs' = IF done THEN outdirs \cup {<<>>} ELSE outdirs
  /\ outfiles' = IF done THEN outfiles \cup {<<<<>>, template, "filled">>} ELSE outfiles
  /\ UNCHANGED <<files, sheets, broken, converter, clock, reads, fills>>

ItemValues == {None, Str(<<>>), Str(<<"x">>), Int_(0), Bool(FALSE)}
FillValues == ItemValues \cup {List(items) : items \in Seqs(ItemValues, MaxItems)}
FillData == UNION {[keys -> FillValues] : keys \in SUBSET {K_1, K_2}}

InitContext ==
  /\ files = {A_docx}
  /\ broken \in SUBSET files
  /\ converter = "ok"
  /\ sheets = [f \in {} |-> Unreadable]
  /\ clock = 0
  /\ outdirs = {}
  /\ outfiles = {}
  /\ call = NoCall
  /\ ret = Return(<<>>)
  /\ reads = <<>>
  /\ fills = <<>>
  /\ rendered = NoContext

NextContext ==
  call = NoCall /\ \E template \in files, data \in FillData : FillDocxFile(template, data)

SpecContext == InitContext /\ [][NextContext]_vars

(***************************************************************************)
(* find_config_file (src/src/utils/excel_reader.py) and DocuFillAPI         *)
(* (src/app.py) over the one template folder, named TemplateName.          *)
(***************************************************************************)
\* directory.glob('*' + ext)
glob_ending(ext) == {f \in files : endswith(f, ext)}

\* template_path.glob('*.doc*')
glob_doc_any == {f \in files : contains(f, X_doc)}

\* variant: a .xls file is preferred to a .xlsx file of another name
find_config_file_xls_first ==
  IF DEFAULT_CONFIG_EXCEL_FILENAME \in files
    THEN {Str(DEFAULT_CONFIG_EXCEL_FILENAME)}
  ELSE IF glob_ending(X_xls) # {} THEN {Str(f) : f \in glob_ending(X_xls)}
  ELSE IF glob_ending(X_xlsx) # {} THEN {Str(f) : f \in glob_ending(X_xlsx)}
  ELSE {None}

\* find_config_file on the template folder: the values it can return.  The
\* order in which glob lists a folder is the file system's, so any match can
\* be the first.
find_config_file ==
  IF DEFAULT_CONFIG_EXCEL_FILENAME \in files
    THEN {Str(DEFAULT_CONFIG_EXCEL_FILENAME)}
  ELSE IF glob_ending(X_xlsx) # {} THEN {Str(f) : f \in glob_ending(X_xlsx)}
  ELSE IF glob_ending(X_xls) # {} THEN {Str(f) : f \in glob_ending(X_xls)}
  ELSE {None}

\* line 111
doc_files_legacy(doc_files) == {f \in doc_files : lower(suffix(f)) = X_doc}

\* variant: the extension filter is left out
docx_files_unfiltered(doc_files) == doc_files

\* line 118
docx_files_of(doc_files) == {f \in doc_files : lower(suffix(f)) = X_docx}

\* lines 122-130
template_report(errors, warnings) ==
  [valid |-> Len(errors) = 0, errors |-> errors, warnings |-> warnings]

\* lines 132-136
template_exception(type) ==
  [valid |-> FALSE, errors |-> <<[kind |-> "exception", type |-> type]>>]

\* lines 107-108 and 118-120: the errors of the document checks
document_errors(doc_files) ==
  (IF doc_files = {} THEN <<[kind |-> "no_documents"]>> ELSE <<>>)
    \o (IF docx_files_of(doc_files) = {} THEN <<[kind |-> "no_docx"]>> ELSE <<>>)

\* lines 111-115: the warning of the document checks
legacy_warnings(doc_files) ==
  IF doc_files_legacy(doc_files) # {}
    THEN <<[kind |-> "legacy_files",
            count |-> Cardinality(doc_files_legacy(doc_files))]>>
    ELSE <<>>

\* variant: without a config file the document checks still run
validate_template_continue(template_name, config_file) ==
  IF template_name.t # "str"
    THEN template_exception("TypeError")
  ELSE IF template_name # TemplateName
    THEN [valid |-> FALSE, errors |-> <<[kind |-> "folder_not_found"]>>]
  ELSE IF ~truthy(config_file)
    THEN template_report(<<[kind |-> "no_config"]>> \o document_errors(glob_doc_any),
                         legacy_warnings(glob_doc_any))
  ELSE IF ExcelConfigReader(config_file.s).raised
    THEN template_exception(ExcelConfigReader(config_file.s).type)
  ELSE
    LET validation == validate_config(ExcelConfigReader(config_file.s).value) IN
    template_report(validation.errors \o document_errors(glob_doc_any),
                    validation.warnings \o legacy_warnings(glob_doc_any))

\* variant: the document checks are skipped when the config has errors
validate_template_stop(template_name, config_file) ==
  IF template_name.t # "str"
    THEN template_exception("TypeError")
  ELSE IF template_name # TemplateName
    THEN [valid |-> FALSE, errors |-> <<[kind |-> "folder_not_found"]>>]
  ELSE IF ~truthy(config_file)
    THEN [valid |-> FALSE, errors |-> <<[kind |-> "no_config"]>>]
  ELSE IF ExcelConfigReader(config_file.s).raised
    THEN template_exception(ExcelConfigReader(config_file.s).type)
  ELSE
    LET validation == validate_config(ExcelConfigReader(config_file.s).value) IN
    IF Len(validation.errors) > 0
      THEN template_report(validation.errors, validation.warnings)
      ELSE template_report(document_errors(glob_doc_any),
                           validation.warnings \o legacy_warnings(glob_doc_any))

\* validate_template, with config_file the value find_config_file returned
validate_template(template_name, config_file) ==
  IF template_name.t # "str"               \* Path(...) / template_name
    THEN template_exception("TypeError")
  ELSE IF template_name # TemplateName
    THEN [valid |-> FALSE, errors |-> <<[kind |-> "folder_not_found"]>>]
  ELSE IF ~truthy(config_file)
    THEN [valid |-> FALSE, errors |-> <<[kind |-> "no_config"]>>]
  ELSE IF ExcelConfigReader(config_file.s).raised
    THEN template_exception(ExcelConfigReader(config_file.s).type)
  ELSE
    LET validation == validate_config(ExcelConfigReader(config_file.s).value)
        doc_files == glob_doc_any
    IN template_report(validation.errors \o document_errors(doc_files),
                       validation.warnings \o legacy_warnings(doc_files))

ValidateTemplate(template_name) ==
  \E config_file \in find_config_file :
    /\ call' = [op |-> "validate_template", template_name |-> template_name,
                config_file |-> config_file]
    /\ ret' = Return(validate_template(template_name, config_file))
    /\ UNCHANGED <<files, sheets, broken, converter, clock, outdirs, outfiles, reads, fills, rendered>>

(***************************************************************************)
(* Template folders of the validation checks.                              *)
(***************************************************************************)
Z_xlsx == <<"z",".","x","l","s","x">>
O_xls == <<"o",".","x","l","s">>
N_docm == <<"n",".","d","o","c","m">>

SheetNames == {ConfigName, Z_xlsx, O_xls}
FolderDocNames == {A_docx, B_doc, Temp_docx, N_docm}

GoodRow == [c \in {"label", "key"} |->
              IF c = "key" THEN Str(<<"k","_","1">>) ELSE Str(<<"L">>)]
BlankLabelRow == [c \in {"label", "key"} |->
                    IF c = "key" THEN Str(<<"k","_","2">>) ELSE Str(<<" ">>)]

TemplateSheets ==
  {DataFrame({"label", "key"}, <<GoodRow>>),
   DataFrame({"label", "key"}, <<GoodRow, BlankLabelRow>>),
   DataFrame({"label", "key"}, <<GoodRow, GoodRow>>),
   DataFrame({"label"}, <<>>),
   Unreadable}

\* a name beyond the template folder, and the inputs of validate_template
OtherTemplate == Str(<<"U">>)
TemplateArgs == {TemplateName, OtherTemplate, None}

InitTemplate ==
  /\ \E docs \in SUBSET FolderDocNames, names \in SUBSET SheetNames :
       /\ files = docs \cup names
       /\ sheets \in [names -> TemplateSheets]
  /\ InitQuiet

NextTemplate ==
  \/ \E template_name \in TemplateArgs : ValidateTemplate(template_name)
  \/ \E file_path \in DOMAIN sheets : ValidateConfig(file_path)

SpecTemplate == InitTemplate /\ [][NextTemplate]_vars

(***************************************************************************)
(* The other operations of DocuFillAPI (src/app.py) and find_config_file   *)
(* called on any path.                                                     *)
(***************************************************************************)
Temp_xlsx == <<"~","$","z",".","x","l","s","x">>

\* a path below the templates directory: the template folder, a file of it,
\* or a name that does not exist
FilePath(f) == Str(TemplateName.s \o <<"/">> \o f)
path_exists(path) == path = TemplateName \/ \E f \in files : path = FilePath(f)
is_dir(path) == path = TemplateName

\* find_config_file(directory), lines 392-395 before the search
find_config_file_in(directory) ==
  IF ~path_exists(directory) \/ ~is_dir(directory) THEN {None}
  ELSE find_config_file

FindConfigFile(directory) ==
  \E config_file \in find_config_file_in(directory) :
    /\ call' = [op |-> "find_config_file", directory |-> directory]
    /\ ret' = Return(config_file)
    /\ UNCHANGED <<files, sheets, broken, converter, clock, outdirs, outfiles, reads, fills, rendered>>

\* the orders in which glob can list a set of names
Perms(S) == {p \in [1..Cardinality(S) -> S] : Range(p) = S}

\* [f.name for f in folder.glob('*' + ext) if not f.name.startswith('~$')]
listed(ext) == {f \in glob_ending(ext) : ~startswith(f, TempMarker)}

\* get_templates over the templates directory, which holds the one folder
get_templates(config_file, docx_files, doc_files) ==
  <<[name |-> TemplateName.s,
     has_config |-> config_file # None,
     config_file |-> config_file,
     docx_files |-> docx_files \o doc_files,
     file_count |-> Len(docx_files \o doc_files)]>>

GetTemplates ==
  \E config_file \in find_config_file,
     docx_files \in Perms(listed(X_docx)), doc_files \in Perms(listed(X_doc)) :
    /\ call' = [op |-> "get_templates"]
    /\ ret' = Return(get_templates(config_file, docx_files, doc_files))
    /\ UNCHANGED <<files, sheets, broken, converter, clock, outdirs, outfiles, reads, fills, rendered>>

\* variant: an invalid template gives an empty list of fields
get_template_fields_swallow(template_name, config_file) ==
  IF ~validate_template(template_name, config_file).valid
    THEN Return(<<>>)
    ELSE read_fields(ExcelConfigReader(config_file.s).value)

\* variant: the fields are read without validating the template first
get_template_fields_unchecked(template_name, config_file) ==
  IF template_name # TemplateName \/ ~truthy(config_file)
    THEN Raise("Exception", [kind |-> "config_not_found", errors |-> <<>>])
    ELSE read_fields(ExcelConfigReader(config_file.s).value)

\* get_template_fields: every exception is printed and raised again.  The
\* second find_config_file call lists the unchanged folder as the first did.
get_template_fields(template_name, config_file) ==
  IF ~validate_template(template_name, config_file).valid
    THEN Raise("Exception",
               [kind |-> "validation_failed",
                errors |-> validate_template(template_name, config_file).errors])
    ELSE read_fields(ExcelConfigReader(config_file.s).value)

GetTemplateFields(template_name) ==
  \E config_file \in find_config_file :
    /\ call' = [op |-> "get_template_fields", template_name |-> template_name,
                config_file |-> config_file]
    /\ ret' = get_template_fields(template_name, config_file)
    /\ UNCHANGED <<files, sheets, broken, converter, clock, outdirs, outfiles, reads, fills, rendered>>

\* lines 234-242
doc_notes(all_doc_files) ==
  LET doc_files == SelectSeq(all_doc_files, LAMBDA f : endswith(f, X_doc)) IN
  [i \in DOMAIN doc_files |-> [kind |-> "doc_not_filled", file |-> doc_files[i]]]

\* the fill of lines 221-231 happens
fill_runs(template_name, all_doc_files) ==
  template_name = TemplateName /\ all_doc_files # <<>>

\* fill_documents, with all_doc_files the documents the two globs listed
fill_documents(template_name, all_doc_files) ==
  IF template_name.t # "str"               \* Path(...) / template_name
    THEN [success |-> FALSE, message |-> [kind |-> "exception", type |-> "TypeError"]]
  ELSE IF template_name # TemplateName
    THEN [success |-> FALSE, message |-> [kind |-> "folder_not_found"]]
  ELSE IF all_doc_files = <<>>
    THEN [success |-> FALSE, message |-> [kind |-> "no_documents"]]
  ELSE
    LET result == fill_multiple_documents(all_doc_files, Str(strftime(clock)),
                                          template_name)
    IN IF result.success
         THEN [success |-> TRUE,
               message |-> [kind |-> "filled",
                            filled |-> Len(result.filled_files),
                            failed |-> Len(result.errors)],
               files |-> result.filled_files,
               errors |-> result.errors,
               warnings |-> doc_notes(all_doc_files),
               output_folder |-> result.output_folder]
         ELSE [success |-> FALSE,
               message |-> [kind |-> "failed"],
               errors |-> result.errors]

FillDocuments(template_name) ==
  \E docx_files \in Perms(listed(X_docx)), doc_files \in Perms(listed(X_doc)) :
    LET all_doc_files == docx_files \o doc_files
        timestamp == Str(strftime(clock))
        runs == fill_runs(template_name, all_doc_files)
        folder == output_folder(timestamp, template_name)
        written == fill_loop(all_doc_files, timestamp, template_name).written
    IN /\ call' = [op |-> "fill_documents", template_name |-> template_name,
                   all_doc_files |-> all_doc_files]
       /\ ret' = Return(fill_documents(template_name, all_doc_files))
       /\ outdirs' = IF runs THEN outdirs \cup {folder} ELSE outdirs
       /\ outfiles' = IF runs THEN outfiles \cup written ELSE outfiles
       /\ fills' = IF runs
                     THEN Append(fills, [op |-> "fill_documents",
                                         at |-> clock,
                                         folder |-> folder,
                                         existed |-> folder \in outdirs,
                                         written |-> written])
                     ELSE fills
       /\ UNCHANGED <<files, sheets, broken, converter, clock, reads, rendered>>

(***************************************************************************)
(* Template folders of the checks of the whole interface, one call each.   *)
(***************************************************************************)
ApiSheetNames == {ConfigName, Z_xlsx, Temp_xlsx, O_xls}
ApiDocNames == {A_docx, B_doc, Temp_docx}
ApiSheets ==
  {DataFrame({"label", "key"}, <<GoodRow>>),
   DataFrame({"label", "key"}, <<GoodRow, GoodRow>>),
   Unreadable}
Directories == {TemplateName, OtherTemplate, FilePath(A_docx)}

InitApi ==
  /\ \E docs \in SUBSET ApiDocNames, names \in SUBSET ApiSheetNames :
       /\ files = docs \cup names
       /\ sheets \in [names -> ApiSheets]
  /\ broken \in SUBSET (files \cap {A_docx, B_doc})
  /\ converter \in {"ok", "nofile"}
  /\ clock = 0
  /\ outdirs = {}
  /\ outfiles = {}
  /\ call = NoCall
  /\ ret = Return(<<>>)
  /\ reads = <<>>
  /\ fills = <<>>
  /\ rendered = NoContext

NextApi ==
  \/ call = NoCall /\ \E template_name \in TemplateArgs : ValidateTemplate(template_name)
  \/ call = NoCall /\ GetTemplates
  \/ call = NoCall /\ \E template_name \in TemplateArgs : GetTemplateFields(template_name)
  \/ call = NoCall /\ \E template_name \in TemplateArgs : FillDocuments(template_name)
  \/ call = NoCall /\ \E directory \in Directories : FindConfigFile(directory)

SpecApi == InitApi /\ [][NextApi]_vars

(***************************************************************************)
(* Repeated fills of one folder of two good documents, by either entry     *)
(* point, as the clock advances or stands still.                           *)
(***************************************************************************)
RefillRequests == {<<A_docx>>, <<A_docx, B_doc>>}

InitRefill ==
  /\ files = {A_docx, B_doc}
  /\ broken = {}
  /\ converter \in {"ok", "timeout"}
  /\ sheets = [f \in {} |-> Unreadable]
  /\ clock = 0
  /\ outdirs = {}
  /\ outfiles = {}
  /\ call = NoCall
  /\ ret = Return(<<>>)
  /\ reads = <<>>
  /\ fills = <<>>
  /\ rendered = NoContext

NextRefill ==
  \/ Tick
  \/ /\ Len(fills) < MaxFills
     /\ \E docx_files \in RefillRequests, timestamp \in Timestamps,
           template_name \in {None, Str(<<>>), TemplateName} :
          FillMultipleDocuments(docx_files, timestamp, template_name)
  \/ /\ Len(fills) < MaxFills
     /\ FillDocuments(TemplateName)

SpecRefill == InitRefill /\ [][NextRefill]_vars

(***************************************************************************)
(* Template folders of the field-listing checks: configs with good,        *)
(* repeated, malformed and empty keys.                                     *)
(***************************************************************************)
KeyRow(k) == [c \in {"label", "key"} |-> IF c = "key" THEN k ELSE Str(<<"L">>)]

FieldSheets ==
  {DataFrame({"label", "key"}, <<KeyRow(Str(K_1)), KeyRow(Str(K_2))>>),
   DataFrame({"label", "key"}, <<KeyRow(Str(K_1)), KeyRow(Str(K_1))>>),
   DataFrame({"label", "key"}, <<KeyRow(Str(K_1)), KeyRow(Str(<<"k","-","2">>))>>),
   DataFrame({"label", "key"}, <<KeyRow(NaN)>>),
   DataFrame({"label", "key"}, <<>>),
   DataFrame({"label"}, <<>>),
   Unreadable}

InitFields ==
  /\ \E docs \in SUBSET {A_docx, B_doc}, names \in SUBSET {ConfigName, Z_xlsx} :
       /\ files = docs \cup names
       /\ sheets \in [names -> FieldSheets]
  /\ InitQuiet

NextFields ==
  \/ call = NoCall /\ \E template_name \in TemplateArgs : GetTemplateFields(template_name)
  \/ call = NoCall /\ \E template_name \in TemplateArgs : ValidateTemplate(template_name)

SpecFields == InitFields /\ [][NextFields]_vars

(***************************************************************************)
(* Properties of read_fields.                                              *)
(***************************************************************************)
HasRequiredColumns(df) == {"label", "key"} \subseteq df.columns

\* the key cell holds nothing: missing, blank, or the text "nan" that stands
\* for a missing cell
KeyCellEmpty(cell) == isna(cell) \/ strip(str(cell)) \in {<<>>, S_nan}

\* the same, with "nan" in any letter case
KeyCellEmptyAnyCase(cell) == isna(cell) \/ lower(strip(str(cell))) \in {<<>>, S_nan}

\* the trimmed keys of the rows whose key cell is not Empty, in row order
KeptKeys(rows, Empty(_)) ==
  LET kept == SelectSeq(rows, LAMBDA row : ~Empty(row["key"])) IN
  [i \in DOMAIN kept |-> strip(str(kept[i]["key"]))]

ReadFieldsMeets(Empty(_)) ==
  (call.op = "read_fields" /\ sheets[call.path].readable) =>
    LET df == sheets[call.path] IN
    IF ~HasRequiredColumns(df)
      THEN ret.raised /\ ret.type = "ValueError"
      ELSE ~ret.raised /\ Keys(ret.value) = KeptKeys(df.rows, Empty)

\* C4 as stated: read_fields raises ValueError when the label or the key
\* column is missing, and otherwise returns one field per row whose key is
\* non-empty, in row order.
C4_AsStated == ReadFieldsMeets(KeyCellEmpty)

\* C4 amended: read_fields raises ValueError when the label or the key column
\* is missing, and otherwise returns one field per row whose trimmed key is
\* neither empty nor "nan" in any letter case, in row order.
C4_ReadFields == ReadFieldsMeets(KeyCellEmptyAnyCase)

C4_Witness ==
  /\ call.op = "read_fields"
  /\ ~ret.raised
  /\ Len(ret.value) = 2
  /\ Len(sheets[call.path].rows) = 3
  /\ \E i \in 1..3 : sheets[call.path].rows[i]["key"] = Str(<<" ","N","a","N"," ">>)

ErrorsOfKind(errors, kind) == SelectSeq(errors, LAMBDA e : e.kind = kind)

\* the fields validate_config parsed, <<>> when the read raised
ParsedFields(sheet) ==
  IF read_fields(sheet).raised THEN <<>> ELSE read_fields(sheet).value

DuplicatedKeys(fields) ==
  {fields[i].key : i \in {i \in DOMAIN fields :
                            \E j \in DOMAIN fields : j # i /\ fields[j].key = fields[i].key}}

\* C6: validate_config reports exactly one duplicate-key error when some key
\* is duplicated, and that error lists each duplicated key once; it reports
\* none when no key is duplicated.
C6_OneDuplicateError ==
  call.op = "validate_config" =>
    LET fields == ParsedFields(sheets[call.path])
        dups == ErrorsOfKind(ret.value.errors, "duplicate_keys")
    IN IF DuplicatedKeys(fields) # {}
         THEN /\ Len(dups) = 1
              /\ Range(dups[1].keys) = DuplicatedKeys(fields)
              /\ Len(dups[1].keys) = Cardinality(DuplicatedKeys(fields))
         ELSE Len(dups) = 0

C6_Witness ==
  /\ call.op = "validate_config"
  /\ Cardinality(DuplicatedKeys(ParsedFields(sheets[call.path]))) = 2
  /\ Len(ErrorsOfKind(ret.value.errors, "duplicate_keys")) = 1

\* a key of letters, digits and underscores only
KeyWellFormed(key) == key # <<>> /\ \A i \in DOMAIN key : key[i] \in WordChars

\* C7: validate_config reports one key-format error for each field whose key
\* does not match ^[A-Za-z0-9_]+$, naming that key, and none for the others.
C7_KeyFormatErrors ==
  call.op = "validate_config" =>
    LET fields == ParsedFields(sheets[call.path])
        bad == ErrorsOfKind(ret.value.errors, "invalid_key")
    IN [i \in DOMAIN bad |-> bad[i].key]
         = SelectSeq(Keys(fields), LAMBDA key : ~KeyWellFormed(key))

C7_Witness ==
  /\ call.op = "validate_config"
  /\ LET bad == ErrorsOfKind(ret.value.errors, "invalid_key") IN
     /\ Len(bad) = 2
     /\ bad[1].key = <<"a"," ","b">>
     /\ bad[2].key = <<"k","-","2">>
  /\ \E i \in DOMAIN sheets[call.path].rows :
       sheets[call.path].rows[i]["key"] = Str(<<"k","_","1">>)

(***************************************************************************)
(* Properties of the two readings of the "multiple" column.                *)
(***************************************************************************)
\* the cells the strict pass accepts: TRUE and FALSE in any letter case and
\* with surrounding blanks, and blank cells
StrictCells ==
  {NaN, Bool(TRUE), Bool(FALSE),
   Str(<<"T","R","U","E">>), Str(<<"t","r","u","e">>),
   Str(<<" ","T","r","u","e"," ">>),
   Str(<<"F","A","L","S","E">>), Str(<<"f","a","l","s","e">>),
   Str(<<>>), Str(<<" ">>)}

\* the tokens the lenient parse accepts and the strict pass must reject
ShorthandCells ==
  {Str(<<"Y","E","S">>), Str(<<"Y">>), Str(<<"1">>),
   Str(<<"N","O">>), Str(<<"N">>), Str(<<"0">>)}

\* C8: the strict pass of validate_config reports one error for each cell of
\* the "multiple" column that is not TRUE, FALSE or blank, at that cell's
\* spreadsheet row, and none for the other cells; YES, Y, 1, NO, N and 0 are
\* such errors.
C8_StrictMultiple ==
  (call.op = "validate_config" /\ "multiple" \in sheets[call.path].columns) =>
    LET rows == sheets[call.path].rows
        bad == ErrorsOfKind(ret.value.errors, "invalid_multiple")
        offending == SelectSeq([i \in DOMAIN rows |-> i],
                               LAMBDA i : rows[i]["multiple"] \notin StrictCells)
    IN /\ [i \in DOMAIN bad |-> bad[i].row] = [i \in DOMAIN offending |-> offending[i] + 1]
       /\ \A i \in DOMAIN rows :
            rows[i]["multiple"] \in ShorthandCells =>
              \E j \in DOMAIN bad : bad[j].row = i + 1 /\ bad[j].value = rows[i]["multiple"]
       /\ (bad # <<>> => ~ret.value.valid)

C8_Witness ==
  /\ call.op = "validate_config"
  /\ Len(sheets[call.path].rows) = 2
  /\ sheets[call.path].rows[1]["multiple"] = Str(<<"t","r","u","e">>)
  /\ sheets[call.path].rows[2]["multiple"] = Str(<<"Y","E","S">>)
  /\ ErrorsOfKind(ret.value.errors, "invalid_multiple")
       = <<[kind |-> "invalid_multiple", row |-> 3, value |-> Str(<<"Y","E","S">>)]>>

LenientTrue ==
  {Bool(TRUE),
   Str(<<"T","R","U","E">>), Str(<<"t","r","u","e">>),
   Str(<<" ","T","r","u","e"," ">>),
   Str(<<"Y","E","S">>), Str(<<"Y">>), Str(<<"y">>), Str(<<"1">>)}

LenientFalse ==
  {Bool(FALSE),
   Str(<<"F","A","L","S","E">>), Str(<<"f","a","l","s","e">>),
   Str(<<"N","O">>), Str(<<"N">>), Str(<<"n">>), Str(<<"0">>),
   Str(<<>>), Str(<<" ">>)}

\* C9: _parse_boolean returns true for TRUE, YES, Y, 1 and boolean true,
\* false for FALSE, NO, N, 0, the empty string and boolean false, in any
\* letter case and with surrounding blanks; false for every other string;
\* and for a number, true exactly when it is not zero.  It never raises.
C9_LenientParse ==
  call.op = "_parse_boolean" =>
    /\ ~ret.raised
    /\ (call.value \in LenientTrue => ret.value = TRUE)
    /\ (call.value \in LenientFalse => ret.value = FALSE)
    /\ ((call.value.t = "str" /\ call.value \notin LenientTrue) => ret.value = FALSE)
    /\ (call.value.t = "int" => (ret.value <=> call.value.n # 0))

C9_Witness ==
  /\ call.op = "_parse_boolean"
  /\ call.value = Str(<<" ","T","r","u","e"," ">>)
  /\ ret.value = TRUE

(***************************************************************************)
(* Properties of fill_multiple_documents.                                  *)
(***************************************************************************)
Occurrences(seq, x) == Cardinality({i \in DOMAIN seq : seq[i] = x})

ErrorsNaming(errors, kind, file) ==
  SelectSeq(errors, LAMBDA e : e.kind = kind /\ e.file = file)

\* every requested name among names that is not in the folder has one
\* "not found" error for each time it is requested
MissingReported(names) ==
  \A f \in names :
    (f \in Range(call.docx_files) /\ f \notin files) =>
      Len(ErrorsNaming(ret.value.errors, "not_found", f))
        = Occurrences(call.docx_files, f)

\* every requested file that exists and is no temp file was processed: it has
\* as many filled entries and fill errors as requests
RemainingProcessed ==
  \A f \in Range(call.docx_files) :
    (f \in files /\ ~startswith(f, TempMarker)) =>
      Occurrences(ret.value.filled_files,
                  filled_entry(f, call.timestamp, call.template_name))
        + Len(ErrorsNaming(ret.value.errors, "fill_error", f))
        = Occurrences(call.docx_files, f)

\* the result of a batch of two names of which exactly one is missing
OneOfTwoMissing ==
  /\ Len(call.docx_files) = 2
  /\ Cardinality({i \in 1..2 : call.docx_files[i] \notin files}) = 1

OneOfTwoResult ==
  /\ ret.value.success
  /\ Len(ret.value.filled_files) = 1
  /\ Len(ret.value.errors) = 1
  /\ ret.value.errors[1].kind = "not_found"
  /\ ret.value.errors[1].file \notin files

NotTemp == {f \in RequestNames : ~startswith(f, TempMarker)}

C2_SuccessIffFilled ==
  call.op = "fill_multiple_documents" =>
    /\ ret.value.success <=> ret.value.filled_files # <<>>
    /\ {"errors", "output_folder"} \subseteq DOMAIN ret.value
    /\ ((ret.value.filled_files # <<>> /\ ret.value.errors # <<>>) => ret.value.success)
    /\ (ret.value.filled_files = <<>> => ~ret.value.success)

C2_Witness ==
  /\ call.op = "fill_multiple_documents"
  /\ ret.value.success
  /\ ret.value.filled_files # <<>>
  /\ ErrorsOfKind(ret.value.errors, "fill_error") # <<>>

(***************************************************************************)
(* Properties of the validation reports.                                   *)
(***************************************************************************)
\* C3: every report of validate_config and of validate_template has valid
\* true exactly when its errors list is empty, whatever its warnings.
C3_ValidIffNoErrors ==
  call.op \in {"validate_config", "validate_template"} =>
    (ret.value.valid <=> ret.value.errors = <<>>)

C3_Witness ==
  /\ call.op = "validate_template"
  /\ ret.value.valid
  /\ ret.value.errors = <<>>
  /\ Len(ret.value.warnings) = 2

HoldsDocx == \E f \in files : endswith(f, X_docx)
HoldsDoc == \E f \in files : endswith(f, X_doc)

\* every config file the folder can be given is valid on its own
ConfigValid ==
  \A c \in find_config_file :
    /\ c # None
    /\ validate_config(sheets[c.s]).valid

\* C10: with a valid config, validate_template reports valid false when the
\* folder holds no .docx file, and reports a legacy-format warning, never an
\* error, when it holds a .doc file; a folder with only a .doc file gets valid
\* false and one legacy warning.
C10_DocxRequired ==
  (call.op = "validate_template" /\ call.template_name = TemplateName /\ ConfigValid) =>
    LET legacy == ErrorsOfKind(ret.value.warnings, "legacy_files") IN
    /\ ~HoldsDocx => ~ret.value.valid
    /\ HoldsDoc => Len(legacy) = 1
    /\ \A i \in DOMAIN ret.value.errors :
         ret.value.errors[i].kind \in {"no_documents", "no_docx"}
    /\ (HoldsDoc /\ files \cap FolderDocNames = {B_doc}) =>
         (~ret.value.valid /\ Len(legacy) = 1)

C10_Witness ==
  /\ call.op = "validate_template"
  /\ call.template_name = TemplateName
  /\ ConfigValid
  /\ files \cap FolderDocNames = {B_doc}
  /\ ~ret.value.valid
  /\ ret.value.errors = <<[kind |-> "no_docx"]>>
  /\ ret.value.warnings = <<[kind |-> "legacy_files", count |-> 1]>>


(***************************************************************************)
(* Properties of validate_template: the missing config and the accumulated *)
(* report.                                                                 *)
(***************************************************************************)
\* the folder holds no spreadsheet that find_config_file could pick
NoSpreadsheet == \A f \in files : ~endswith(f, X_xlsx) /\ ~endswith(f, X_xls)

\* C11: when no config spreadsheet can be located in the template folder,
\* validate_template returns valid false with exactly one error, the missing
\* config, and nothing of the config checks or the document checks.
C11_NoConfigShortCircuit ==
  (call.op = "validate_template" /\ call.template_name = TemplateName
     /\ NoSpreadsheet) =>
    /\ ~ret.raised
    /\ ret.value = [valid |-> FALSE, errors |-> <<[kind |-> "no_config"]>>]

C11_Witness ==
  /\ call.op = "validate_template"
  /\ call.template_name = TemplateName
  /\ NoSpreadsheet
  /\ ~HoldsDocx
  /\ HoldsDoc
  /\ Len(ret.value.errors) = 1

\* no file of the folder has ".doc" in its name
HoldsNoDocument == \A f \in files : ~contains(f, X_doc)

\* C12: when a config file is located, the report of validate_template holds
\* every error of the config validation, in order, followed by the errors of
\* the document checks: "no documents" exactly when the folder holds no
\* document and "no .docx" exactly when it holds no .docx file, whether or
\* not the config validation found errors.
C12_ChecksAccumulate ==
  (call.op = "validate_template" /\ call.template_name = TemplateName
     /\ call.config_file # None) =>
    LET config == validate_config(sheets[call.config_file.s])
        errors == ret.value.errors
        n == Len(config.errors)
    IN /\ Len(errors) >= n
       /\ SubSeq(errors, 1, n) = config.errors
       /\ Len(ErrorsOfKind(SubSeq(errors, n + 1, Len(errors)), "no_documents"))
            = IF HoldsNoDocument THEN 1 ELSE 0
       /\ Len(ErrorsOfKind(SubSeq(errors, n + 1, Len(errors)), "no_docx"))
            = IF HoldsDocx THEN 0 ELSE 1

C12_Witness ==
  /\ call.op = "validate_template"
  /\ call.template_name = TemplateName
  /\ call.config_file # None
  /\ Len(validate_config(sheets[call.config_file.s]).errors) > 0
  /\ HoldsNoDocument
  /\ Len(ret.value.errors)
       = Len(validate_config(sheets[call.config_file.s]).errors) + 2

(***************************************************************************)
(* Properties of the whole interface.                                      *)
(***************************************************************************)
IsTemp(f) == startswith(f, TempMarker)

\* the file names an entry list mentions, each entry ending with its name
NamesTemp(entries) == \E i \in DOMAIN entries : contains(entries[i], TempMarker)

\* C13 as stated: a file whose name starts with "~$" is no document for
\* validate_template (a folder whose only .docx file is such a file gets the
\* "no .docx" error), is not listed by get_templates, is not filled by
\* fill_documents, and is never the config file find_config_file returns.
C13_AsStated ==
  /\ (call.op = "validate_template" /\ call.template_name = TemplateName
        /\ call.config_file # None) =>
       /\ ~IsTemp(call.config_file.s)
       /\ (~\E f \in files : endswith(f, X_docx) /\ ~IsTemp(f)) =>
            Len(ErrorsOfKind(ret.value.errors, "no_docx")) = 1
  /\ call.op = "get_templates" =>
       \A i \in DOMAIN ret.value : ~NamesTemp(ret.value[i].docx_files)
  /\ (call.op = "fill_documents" /\ ret.value.success) =>
       /\ ~NamesTemp(ret.value.files)
       /\ \A w \in outfiles : ~IsTemp(w[2])
  /\ (call.op = "find_config_file" /\ ret.value # None) =>
       ~IsTemp(ret.value.s)

\* C14: find_config_file returns None for a path that is missing or is no
\* directory; in the folder it returns config.xlsx when that file exists,
\* otherwise a .xlsx file of the folder when there is one, otherwise a .xls
\* file of the folder when there is one, otherwise None.
C14_ConfigPrecedence ==
  call.op = "find_config_file" =>
    /\ ~ret.raised
    /\ IF call.directory # TemplateName THEN ret.value = None
       ELSE IF <<"c","o","n","f","i","g",".","x","l","s","x">> \in files
         THEN ret.value = Str(<<"c","o","n","f","i","g",".","x","l","s","x">>)
       ELSE IF \E f \in files : endswith(f, X_xlsx)
         THEN /\ ret.value # None
              /\ ret.value.s \in files
              /\ endswith(ret.value.s, X_xlsx)
       ELSE IF \E f \in files : endswith(f, X_xls)
         THEN /\ ret.value # None
              /\ ret.value.s \in files
              /\ endswith(ret.value.s, X_xls)
       ELSE ret.value = None

C14_Witness ==
  /\ call.op = "find_config_file"
  /\ call.directory = TemplateName
  /\ {Z_xlsx, O_xls} \subseteq files
  /\ ConfigName \notin files
  /\ ret.value = Str(Z_xlsx)

(***************************************************************************)
(* Properties of the output folder.                                        *)
(***************************************************************************)
\* C15 as stated: over any sequence of fill operations, no two fills write
\* into the same output folder.
C15_AsStated ==
  \A i, j \in DOMAIN fills :
    (i < j /\ fills[i].op = "fill_documents" /\ fills[j].op = "fill_documents") =>
      fills[i].folder # fills[j].folder

\* the timestamp a fill_multiple_documents call used: the one passed, or the
\* time of the call
StampUsed == IF call.timestamp = None THEN strftime(fills[Len(fills)].at)
             ELSE call.timestamp.s

\* C16: fill_multiple_documents writes into the folder
\* {timestamp}_{templateName} directly under the output root when a template
\* name is given and into the output root itself when none is given, and it
\* succeeds in the same way when that folder exists already.
C16_OutputFolder ==
  call.op = "fill_multiple_documents" =>
    LET last == fills[Len(fills)]
        named == StampUsed \o <<"_">> \o TemplateName.s
    IN /\ ~ret.raised
       /\ IF call.template_name = TemplateName
            THEN /\ ret.value.output_folder = OutputRoot \o <<"/">> \o named
                 /\ last.folder = named
            ELSE /\ ret.value.output_folder = OutputRoot
                 /\ last.folder = <<>>
       /\ last.folder \in outdirs
       /\ \A w \in last.written : w[1] = last.folder /\ w \in outfiles
       /\ ret.value.success
       /\ Len(ret.value.filled_files) = Len(call.docx_files)

C16_Witness ==
  /\ call.op = "fill_multiple_documents"
  /\ call.template_name = TemplateName
  /\ call.timestamp = None
  /\ Len(fills) = 2
  /\ fills[2].existed
  /\ fills[2].at = 1
  /\ ret.value.success

(***************************************************************************)
(* Properties of the entries and the errors of one fill.                   *)
(***************************************************************************)
\* the prefix of the entries of a fill_multiple_documents call
EntryPrefix ==
  IF call.template_name = TemplateName
    THEN StampUsed \o <<"_">> \o TemplateName.s \o <<"/">>
    ELSE <<>>

\* C17: every entry of filled_files is {timestampedFolderName}/{fileName}
\* when a template name was given and the bare file name otherwise, for a
\* requested fileName, and the file produced for it is in the output folder
\* under that same name, for .docx and .doc files alike; nothing else is
\* written.
C17_FilledEntries ==
  call.op = "fill_multiple_documents" =>
    LET last == fills[Len(fills)]
        entries == ret.value.filled_files
    IN /\ \A i \in DOMAIN entries :
            \E k \in DOMAIN call.docx_files :
              /\ entries[i] = EntryPrefix \o call.docx_files[k]
              /\ \E w \in outfiles :
                   w[1] = last.folder /\ w[2] = call.docx_files[k]
       /\ \A w \in last.written :
            /\ w[2] \in files
            /\ \E i \in DOMAIN entries : entries[i] = EntryPrefix \o w[2]

C17_Witness ==
  /\ call.op = "fill_multiple_documents"
  /\ call.template_name = TemplateName
  /\ call.docx_files = <<A_docx, B_doc>>
  /\ converter = "ok"
  /\ Len(ret.value.filled_files) = 2
  /\ <<fills[1].folder, B_doc, "filled">> \in outfiles

\* what becomes of one requested name: passed over, reported missing, failed
\* with an exception, or filled
Outcome(f) ==
  IF IsTemp(f) THEN "skip"
  ELSE IF f \notin files THEN "not_found"
  ELSE IF f \in broken /\ (converter = "ok" \/ ~endswith(f, X_doc)) THEN "fill_error"
  ELSE "filled"

\* C18: fill_multiple_documents raises nothing; every requested file whose
\* processing raises an exception gets one error naming it, in request
\* order among the errors, and every file requested after it is still
\* processed: the filled entries are those of all the files that can be
\* filled.
C18_ExceptionsContained ==
  call.op = "fill_multiple_documents" =>
    LET failing == SelectSeq(call.docx_files,
                             LAMBDA f : Outcome(f) \in {"not_found", "fill_error"})
        filling == SelectSeq(call.docx_files, LAMBDA f : Outcome(f) = "filled")
    IN /\ ~ret.raised
       /\ ret.value.errors =
            [i \in DOMAIN failing |-> [kind |-> Outcome(failing[i]), file |-> failing[i]]]
       /\ ret.value.filled_files =
            [i \in DOMAIN filling |-> EntryPrefix \o filling[i]]

C18_Witness ==
  /\ call.op = "fill_multiple_documents"
  /\ call.docx_files = <<A_docx, B_doc>>
  /\ A_docx \in broken
  /\ B_doc \in files
  /\ ret.value.errors = <<[kind |-> "fill_error", file |-> A_docx]>>
  /\ Len(ret.value.filled_files) = 1

(***************************************************************************)
(* Properties of the legacy fallback and of the operation boundary.        *)
(***************************************************************************)
\* the warnings of a fill_documents result that name a file
WarningsNaming(f) ==
  IF "warnings" \in DOMAIN ret.value
    THEN SelectSeq(ret.value.warnings, LAMBDA w : w.file = f)
    ELSE <<>>

\* C19 as stated: for a .doc file of the folder, when the conversion fails
\* the original is copied to the output folder, counts as filled, has no
\* error, and the caller gets a warning about it; when the conversion
\* succeeds the file is filled and the caller gets no such warning.
C19_AsStated ==
  (call.op = "fill_documents" /\ call.template_name = TemplateName) =>
    \A f \in files :
      (endswith(f, X_doc) /\ ~IsTemp(f)) =>
        /\ converter # "ok" =>
             /\ <<fills[1].folder, f, "copied">> \in outfiles
             /\ ret.value.success
             /\ \E i \in DOMAIN ret.value.files : endswith(ret.value.files[i], f)
             /\ ErrorsNaming(ret.value.errors, "fill_error", f) = <<>>
             /\ Len(WarningsNaming(f)) = 1
        /\ (converter = "ok" /\ f \notin broken) =>
             /\ <<fills[1].folder, f, "filled">> \in outfiles
             /\ ret.value.success
             /\ WarningsNaming(f) = <<>>

\* validate_template and fill_documents return a structured result and raise
\* nothing: a valid or success flag, and with a false flag a list of errors or
\* a message
BoundaryHolds ==
  /\ call.op = "validate_template" =>
       /\ ~ret.raised
       /\ {"valid", "errors"} \subseteq DOMAIN ret.value
       /\ ~ret.value.valid => Len(ret.value.errors) >= 1
  /\ call.op = "fill_documents" =>
       /\ ~ret.raised
       /\ {"success", "message"} \subseteq DOMAIN ret.value
       /\ (call.template_name # TemplateName) => ~ret.value.success

\* C20 as stated: validate_template and fill_documents never raise and
\* return a structured result, and get_template_fields likewise returns a
\* result to its caller.
C20_AsStated ==
  /\ BoundaryHolds
  /\ call.op = "get_template_fields" => ~ret.raised

\* C20 amended: validate_template and fill_documents never raise and return
\* a structured result; get_template_fields returns the list of fields when
\* the template is valid and raises an exception carrying the validation
\* errors when it is not.
C20_OnlyFieldsRaises ==
  /\ BoundaryHolds
  /\ call.op = "get_template_fields" =>
       LET valid == validate_template(call.template_name, call.config_file).valid IN
       /\ valid => (~ret.raised /\ Len(ret.value) >= 1)
       /\ ~valid => (ret.raised /\ ret.type = "Exception" /\ Len(ret.msg.errors) >= 1)

C20_Witness ==
  /\ call.op = "get_template_fields"
  /\ call.template_name = TemplateName
  /\ call.config_file # None
  /\ ~HoldsDocx
  /\ ret.raised

(***************************************************************************)
(* Properties relating validation and fill.                                *)
(***************************************************************************)
\* the folder validates, for some config file find_config_file can return
FolderValid ==
  \E config_file \in find_config_file :
    validate_template(TemplateName, config_file).valid

\* C21 as stated: fill_documents produces filled files for a template only
\* when validate_template reports that template valid; for a template whose
\* validation reports errors no file is written and no fill succeeds.
C21_AsStated ==
  (call.op = "fill_documents" /\ call.template_name = TemplateName /\ ~FolderValid) =>
    /\ ~ret.value.success
    /\ outfiles = {}

(***************************************************************************)
(* Properties of validate_config over the parsed fields.                   *)
(***************************************************************************)
\* C22: validate_config reports the "no valid fields" error, once, exactly
\* when read_fields returns an empty list, which is the case for a
\* spreadsheet with both required columns and no rows or only rows with an
\* empty key; the report is then not valid.
C22_NoFieldsError ==
  (call.op = "validate_config" /\ sheets[call.path].readable) =>
    LET df == sheets[call.path]
        read == read_fields(df)
        zero == ~read.raised /\ read.value = <<>>
        reported == Len(ErrorsOfKind(ret.value.errors, "no_fields"))
    IN /\ reported = IF zero THEN 1 ELSE 0
       /\ zero => ~ret.value.valid
       /\ (/\ HasRequiredColumns(df)
           /\ \A i \in DOMAIN df.rows : KeyCellEmpty(df.rows[i]["key"]))
          => reported = 1

C22_Witness ==
  /\ call.op = "validate_config"
  /\ HasRequiredColumns(sheets[call.path])
  /\ Len(sheets[call.path].rows) = 2
  /\ sheets[call.path].rows[1]["key"] = NaN
  /\ sheets[call.path].rows[2]["key"] = Str(<<" ">>)
  /\ ret.value.errors = <<[kind |-> "no_fields"]>>
  /\ ~ret.value.valid

(***************************************************************************)
(* Properties of the field getters.                                        *)
(***************************************************************************)
\* C23: for every config that read_fields parses, the results of
\* get_multiple_value_fields and get_single_value_fields are disjoint and
\* hold every field of read_fields exactly as often as read_fields does, so
\* their lengths add up to its length; get_field_by_key(k) returns a field
\* of read_fields with key k when k is among its keys and None otherwise.
C23_Partition ==
  (/\ call.op \in {"get_multiple_value_fields", "get_single_value_fields",
                   "get_field_by_key"}
   /\ ~read_fields(sheets[call.path]).raised) =>
    LET df == sheets[call.path]
        all == read_fields(df).value
        many == IF call.op = "get_multiple_value_fields" THEN ret
                ELSE get_multiple_value_fields(df)
        one == IF call.op = "get_single_value_fields" THEN ret
               ELSE get_single_value_fields(df)
    IN /\ ~ret.raised
       /\ ~many.raised /\ ~one.raised
       /\ Len(many.value) + Len(one.value) = Len(all)
       /\ Range(many.value) \cap Range(one.value) = {}
       /\ \A x \in Range(all) \cup Range(many.value) \cup Range(one.value) :
            Occurrences(many.value, x) + Occurrences(one.value, x)
              = Occurrences(all, x)
       /\ call.op = "get_field_by_key" =>
            IF call.key \in Range(Keys(all))
              THEN ret.value \in Range(all) /\ ret.value.key = call.key
              ELSE ret.value = None

C23_Witness ==
  /\ call.op = "get_single_value_fields"
  /\ ~ret.raised
  /\ Len(read_fields(sheets[call.path]).value) = 2
  /\ Len(ret.value) = 1
  /\ Len(get_multiple_value_fields(sheets[call.path]).value) = 1

\* the flag the first indicator column present gives a row: the cell of
\* "multiple" when that column is present, else the cell of "type", else
\* false; a blank cell gives false
FirstPresentFlag(df, row) ==
  IF "multiple" \in df.columns THEN row["multiple"] = Str(<<"T","R","U","E">>)
  ELSE IF "type" \in df.columns THEN row["type"] = Str(<<"T","R","U","E">>)
  ELSE FALSE

\* C26 as stated: the multiple flag of every field of read_fields is the one
\* of the first indicator column present, in the order "multiple" then
\* "type": with a "multiple" column its cell alone decides, a blank cell
\* giving false, and "type" is used only when "multiple" is absent.
C26_AsStated ==
  (call.op = "read_fields" /\ ~ret.raised) =>
    LET df == sheets[call.path] IN
    /\ Len(ret.value) = Len(df.rows)
    /\ \A i \in DOMAIN ret.value :
         ret.value[i].multiple = FirstPresentFlag(df, df.rows[i])

(***************************************************************************)
(* Properties of labels and notes.                                         *)
(***************************************************************************)
\* C24 as stated: in every field of read_fields the label is the key when
\* the label cell of its row is empty, and the note is the empty string when
\* the note cell of its row is empty or the spreadsheet has no note column.
C24_AsStated ==
  (call.op = "read_fields" /\ ~ret.raised) =>
    LET df == sheets[call.path] IN
    /\ Len(ret.value) = Len(df.rows)
    /\ \A i \in DOMAIN ret.value :
         /\ isna(df.rows[i]["label"]) => ret.value[i].label = ret.value[i].key
         /\ ("note" \notin df.columns \/ isna(df.rows[i]["note"])) =>
              ret.value[i].note = <<>>

\* the keys of the rows whose label cell is empty or holds only blanks
BlankLabelKeys(df) ==
  LET affected == SelectSeq(df.rows,
                            LAMBDA row : isna(row["label"]) \/ strip(str(row["label"])) = <<>>)
  IN [i \in DOMAIN affected |-> strip(str(affected[i]["key"]))]

\* C25 as stated: for every config with a field whose label is empty or
\* blank, a label cell that is empty in the spreadsheet included,
\* validate_config gives one warning listing the keys of all those fields,
\* and a report with this warning and no error is valid.
C25_AsStated ==
  call.op = "validate_config" =>
    LET df == sheets[call.path]
        warned == ErrorsOfKind(ret.value.warnings, "empty_labels")
    IN /\ BlankLabelKeys(df) # <<>> =>
            (Len(warned) = 1 /\ warned[1].keys = BlankLabelKeys(df))
       /\ BlankLabelKeys(df) = <<>> => warned = <<>>
       /\ (warned # <<>> /\ ret.value.errors = <<>>) => ret.value.valid

(***************************************************************************)
(* Properties of the substitution context.                                 *)
(***************************************************************************)
\* an item that is empty or null
EmptyItem(item) == item.t = "none" \/ (item.t = "str" /\ item.s = <<>>)

\* the string forms of the items of a list that are neither empty nor null
NonEmptyItems(items) ==
  LET kept == SelectSeq(items, LAMBDA item : ~EmptyItem(item)) IN
  [i \in DOMAIN kept |-> Str(str(kept[i]))]

\* C27 as stated: the context of a .docx fill has exactly the keys of the
\* data; a list value maps to the string forms, in order, of its items that
\* are neither empty nor null; a null scalar maps to the empty string; every
\* other scalar maps to its string form.
C27_AsStated ==
  (call.op = "_fill_docx_file" /\ rendered.done) =>
    /\ DOMAIN rendered.context = DOMAIN call.data
    /\ \A key \in DOMAIN call.data :
         LET value == call.data[key] IN
         rendered.context[key] =
           IF value.t = "list" THEN List(NonEmptyItems(value.items))
           ELSE IF value.t = "none" THEN Str(<<>>)
           ELSE Str(str(value))

(***************************************************************************)
(* Accounting of one fill.                                                 *)
(***************************************************************************)
\* the requested names that do not start with ~$, in request order
Requested == SelectSeq(call.docx_files, LAMBDA f : ~IsTemp(f))

\* C28: in the result of fill_multiple_documents every requested name that
\* does not start with ~$ has, for each time it is requested, either one
\* entry in filled_files or one error naming it and not both, so the lengths
\* of filled_files and errors add up to the number of such names; the
\* entries of filled_files are in request order.
C28_Accounting ==
  call.op = "fill_multiple_documents" =>
    LET filled == ret.value.filled_files
        errors == ret.value.errors
        isFilled(f) == \E i \in DOMAIN filled : filled[i] = EntryPrefix \o f
        isFailed(f) == \E i \in DOMAIN errors : errors[i].file = f
        inOrder == SelectSeq(Requested, isFilled)
    IN /\ Len(filled) + Len(errors) = Len(Requested)
       /\ \A f \in Range(Requested) :
            /\ isFilled(f) # isFailed(f)
            /\ Occurrences(filled, EntryPrefix \o f)
                 + Cardinality({i \in DOMAIN errors : errors[i].file = f})
                 = Occurrences(Requested, f)
       /\ filled = [i \in DOMAIN inOrder |-> EntryPrefix \o inOrder[i]]

C28_Witness ==
  /\ call.op = "fill_multiple_documents"
  /\ call.docx_files = <<B_doc, A_docx>>
  /\ call.template_name = TemplateName
  /\ Len(ret.value.filled_files) = 2
  /\ ret.value.errors = <<>>

(***************************************************************************)
(* Properties of get_template_fields.                                      *)
(***************************************************************************)
\* C29: get_template_fields returns a list exactly when validate_template
\* reports the template valid for the same folder, and raises otherwise;
\* every list it returns is for the template folder with a config and a
\* .docx file, is not empty, has pairwise distinct keys, and every key is
\* made of letters, digits and underscores only.
C29_FieldsOnlyWhenValid ==
  call.op = "get_template_fields" =>
    /\ ret.raised <=> ~validate_template(call.template_name, call.config_file).valid
    /\ ~ret.raised =>
         /\ call.template_name = TemplateName
         /\ call.config_file # None
         /\ HoldsDocx
         /\ Len(ret.value) >= 1
         /\ \A i, j \in DOMAIN ret.value :
              i # j => ret.value[i].key # ret.value[j].key
         /\ \A i \in DOMAIN ret.value : KeyWellFormed(ret.value[i].key)

C29_Witness ==
  /\ call.op = "get_template_fields"
  /\ ~ret.raised
  /\ Len(ret.value) = 2
  /\ B_doc \in files

(***************************************************************************)
(* Agreement of the operations on the documents of a folder.               *)
(***************************************************************************)
\* validate_template reports the folder valid whichever config file
\* find_config_file returns
FolderValidAlways ==
  \A config_file \in find_config_file :
    validate_template(TemplateName, config_file).valid

\* C30 as stated: for a folder that validate_template reports valid,
\* get_templates lists at least one document with file_count the number of
\* documents listed, and fill_documents does not answer that the folder has
\* no Word documents.
C30_AsStated ==
  FolderValidAlways =>
    /\ call.op = "get_templates" =>
         \A i \in DOMAIN ret.value :
           /\ ret.value[i].file_count >= 1
           /\ ret.value[i].file_count = Len(ret.value[i].docx_files)
    /\ (call.op = "fill_documents" /\ call.template_name = TemplateName) =>
         ret.value.message.kind # "no_documents"
====
